---- MODULE Spec2Model ----
(***************************************************************************)
(* Model of rust-vscode-workspace-configurator (src/src/main.rs).          *)
(*                                                                         *)
(* One run of the tool is the pipeline                                     *)
(*   discover_runnables -> generate_workspace_launch_config                *)
(*                      -> write_workspace_launch_config                   *)
(* over a directory tree, the answers of `cargo metadata`, and the         *)
(* workspace file and its backups on disk.                                 *)
(*                                                                         *)
(* Strings that the program builds with format! are sequences of tokens    *)
(* (<<"--bin=", "server">>), so that splitting, suffix stripping and       *)
(* joining are computed and not assumed.  Paths are sequences of           *)
(* components.  Option<T> is <<>> (None) or <<v>> (Some(v)).               *)
(***************************************************************************)
EXTENDS Integers, Sequences, FiniteSets, TLC

\* Number of successive runs of the tool in one behaviour.
MaxRuns == 2
\* Longest list of required features a target declares.
MaxFeatures == 2

None == <<>>
Some(v) == <<v>>
IsSome(o) == o # <<>>
Unwrap(o) == o[1]

Last(s) == s[Len(s)]

Front(s) == SubSeq(s, 1, Len(s) - 1)

Range(s) == {s[i] : i \in DOMAIN s}

RECURSIVE Flatten(_)
Flatten(ss) == IF ss = <<>> THEN <<>> ELSE Head(ss) \o Flatten(Tail(ss))

(***************************************************************************)
(* Paths (std::path) and strings                                           *)
(***************************************************************************)
\* The --root argument: the directory that is scanned and written to.
RootDir == <<"home", "ws">>

\* Path::join
PathJoin(p, name) == Append(p, name)

\* Path::parent
Parent(p) == IF p = <<>> THEN p ELSE Front(p)

\* Path::file_name
FileName(p) == IF p = <<>> THEN None ELSE Some(Last(p))

\* Path::starts_with: component-wise prefix
StartsWith(p, base) == Len(base) <= Len(p) /\ SubSeq(p, 1, Len(base)) = base

\* Path::canonicalize on the modelled tree (no symbolic links): drops "."
\* components.
Canonicalize(p) == SelectSeq(p, LAMBDA c : c # ".")

RECURSIVE CommonPrefixLen(_, _)
CommonPrefixLen(p, q) ==
    IF p = <<>> \/ q = <<>> \/ Head(p) # Head(q) THEN 0
    ELSE 1 + CommonPrefixLen(Tail(p), Tail(q))

\* pathdiff::diff_paths(path, base) for absolute paths: one ".." for every
\* component of base below the common prefix, then the rest of path.
DiffPaths(path, base) ==
    LET n == CommonPrefixLen(path, base)
    IN  [i \in 1..(Len(base) - n) |-> ".."] \o SubSeq(path, n + 1, Len(path))

\* Join a list of strings with a separator token (slice::join).
RECURSIVE JoinWith(_, _)
JoinWith(parts, sep) ==
    IF parts = <<>> THEN <<>>
    ELSE IF Len(parts) = 1 THEN <<parts[1]>>
    ELSE <<parts[1], sep>> \o JoinWith(Tail(parts), sep)

\* Path::display: components separated by "/"; the empty path displays as "".
Display(p) == JoinWith(p, "/")

\* str::split(sep): the list of segments between occurrences of sep.
RECURSIVE SplitAcc(_, _, _)
SplitAcc(s, sep, cur) ==
    IF s = <<>> THEN <<cur>>
    ELSE IF Head(s) = sep THEN <<cur>> \o SplitAcc(Tail(s), sep, <<>>)
    ELSE SplitAcc(Tail(s), sep, Append(cur, Head(s)))

Split(s, sep) == SplitAcc(s, sep, <<>>)

\* str::strip_suffix
StripSuffix(s, suffix) ==
    IF s # <<>> /\ Last(s) = suffix THEN Some(Front(s)) ELSE None

\* Order of the directory names (byte order of the strings).
NameRank(name) ==
    CASE name = ".git"      -> 1
      [] name = "alpha"     -> 2
      [] name = "beta"      -> 3
      [] name = "home"      -> 4
      [] name = "notes.txt" -> 5
      [] name = "sub"       -> 6
      [] name = "target"    -> 7
      [] name = "ws"        -> 8
      [] OTHER              -> 9

\* Ord for PathBuf: lexicographic on components.
RECURSIVE PathLess(_, _)
PathLess(p, q) ==
    IF q = <<>> THEN FALSE
    ELSE IF p = <<>> THEN TRUE
    ELSE IF Head(p) = Head(q) THEN PathLess(Tail(p), Tail(q))
    ELSE NameRank(Head(p)) < NameRank(Head(q))

\* First character of a directory name.
FirstChar(name) ==
    CASE name = ".git"      -> "."
      [] name = "alpha"     -> "a"
      [] name = "beta"      -> "b"
      [] name = "notes.txt" -> "n"
      [] name = "sub"       -> "s"
      [] name = "target"    -> "t"
      [] OTHER              -> "?"

(***************************************************************************)
(* The directory tree                                                      *)
(***************************************************************************)
RelDirs ==
    { <<>>, <<"alpha">>, <<"beta">>, <<"alpha", "sub">>, <<"target">>,
      <<".git">> }

\* The directories of the tree.
AllDirs == {RootDir \o r : r \in RelDirs}

\* What read_dir returns for each directory, in one possible order.  The
\* root also holds a plain file.
ListingFwd ==
    [d \in AllDirs |->
        IF d = RootDir THEN <<".git", "alpha", "beta", "notes.txt", "target">>
        ELSE IF d = RootDir \o <<"alpha">> THEN <<"sub">>
        ELSE <<>>]

Reverse(s) == [i \in 1..Len(s) |-> s[Len(s) + 1 - i]]

ListingRev == [d \in AllDirs |-> Reverse(ListingFwd[d])]

VARIABLES
    manifests,      \* directories that contain a Cargo.toml
    unreadable,     \* directories on which read_dir fails
    listing,        \* directory -> entries in the order read_dir yields them
    metadata,       \* project directory -> answer of `cargo metadata`
    wsfile,         \* Option: content of <root>.code-workspace
    backups,        \* backup file name -> content
    pc,             \* position of the run in main
    found_projects, \* discover_runnables: found_projects
    runnables,      \* main: runnables
    launch_config,  \* main: launch_config
    outcome,        \* result of the last finished run
    runs,           \* number of finished runs
    history         \* one record per finished run

vars ==
    << manifests, unreadable, listing, metadata, wsfile, backups, pc,
       found_projects, runnables, launch_config, outcome, runs, history >>

treeVars == << manifests, unreadable, listing, metadata >>

\* Path::is_dir
IsDir(p) == p \in AllDirs

\* Path::exists for <dir>/Cargo.toml
ManifestExists(dir) == dir \in manifests

(***************************************************************************)
(* Project discovery                                                       *)
(***************************************************************************)
\* The directory names the walk skips.
SkipName(name) ==
    FirstChar(name) = "." \/ name = "target" \/ name = "node_modules"

RECURSIVE find_rust_projects_recursive(_, _), VisitEntries(_, _, _)

\* As find_rust_projects_recursive, without the return after a manifest is
\* found: the walk goes on below a project.
find_rust_projects_recursive_Descend(dir, projects) ==
    IF ~IsDir(dir) THEN projects
    ELSE IF dir \in unreadable
    THEN (IF ManifestExists(dir) THEN Append(projects, dir) ELSE projects)
    ELSE VisitEntries(dir, listing[dir],
             IF ManifestExists(dir) THEN Append(projects, dir) ELSE projects)

\* find_rust_projects_recursive(dir, projects): projects after the call.
find_rust_projects_recursive(dir, projects) ==
    IF ~IsDir(dir) THEN projects
    ELSE IF ManifestExists(dir) THEN Append(projects, dir)
    ELSE IF dir \in unreadable THEN projects
    ELSE VisitEntries(dir, listing[dir], projects)

\* The loop over the entries of dir.
VisitEntries(dir, entries, projects) ==
    IF entries = <<>> THEN projects
    ELSE LET name == Head(entries)
             path == PathJoin(dir, name)
             after == IF IsDir(path) /\ ~SkipName(name)
                      THEN find_rust_projects_recursive(path, projects)
                      ELSE projects
         IN  VisitEntries(dir, Tail(entries), after)

\* As FindProjects, without the error for an empty result.
FindProjects_NoEmptyCheck(root_dir) ==
    IF ManifestExists(root_dir)
    THEN [ok |-> TRUE, projects |-> <<root_dir>>]
    ELSE [ok |-> TRUE, projects |-> find_rust_projects_recursive(root_dir, <<>>)]

\* First part of discover_runnables: the project roots, or the error.
FindProjects(root_dir) ==
    IF ManifestExists(root_dir)
    THEN [ok |-> TRUE, projects |-> <<root_dir>>]
    ELSE LET found == find_rust_projects_recursive(root_dir, <<>>)
         IN  IF found = <<>>
             THEN [ok |-> FALSE, projects |-> <<>>]
             ELSE [ok |-> TRUE, projects |-> found]

(***************************************************************************)
(* Runnables                                                               *)
(***************************************************************************)
\* format!("{}::{}", package.name, target.name)
BinaryDisplayName(package, target) == <<package, "::", target>>

\* format!("{}::{} (example)", package.name, target.name)
ExampleDisplayName(package, target) == <<package, "::", target, " (example)">>

\* The runnables one target contributes.
TargetRunnables(package, target, project_path) ==
    (IF "bin" \in target.kind
     THEN << [name |-> BinaryDisplayName(package.name, target.name),
              package |-> package.name,
              runnable_type |-> "Binary",
              required_features |-> target.required_features,
              project_path |-> project_path] >>
     ELSE <<>>)
    \o
    (IF "example" \in target.kind
     THEN << [name |-> ExampleDisplayName(package.name, target.name),
              package |-> package.name,
              runnable_type |-> "Example",
              required_features |-> target.required_features,
              project_path |-> project_path] >>
     ELSE <<>>)

\* The loop over package.targets.
PackageRunnables(package, project_path) ==
    Flatten([i \in 1..Len(package.targets) |->
                TargetRunnables(package, package.targets[i], project_path)])

\* packages_to_process for one project whose metadata query succeeded.
PackagesToProcess(project_path, md) ==
    LET manifest_path == PathJoin(project_path, "Cargo.toml")
        canonical_project_path == Canonicalize(project_path)
    IN  IF md.workspace_members = <<>>
        THEN LET matching ==
                   SelectSeq(md.packages,
                       LAMBDA p : Canonicalize(p.manifest_path)
                                    = Canonicalize(manifest_path))
             IN  IF matching = <<>> THEN <<>> ELSE <<matching[1]>>
        ELSE SelectSeq(md.packages,
                 LAMBDA p : StartsWith(Canonicalize(Parent(p.manifest_path)),
                                       canonical_project_path))

\* One iteration of the loop over found_projects: the runnables it pushes.
ProjectRunnables(project_path) ==
    LET md == metadata[project_path]
    IN  IF ~md.ok THEN <<>>
        ELSE LET packages == PackagesToProcess(project_path, md)
             IN  Flatten([i \in 1..Len(packages) |->
                             PackageRunnables(packages[i], project_path)])

\* As BuildRunnables, with the loop left at the first project whose query
\* fails (break for continue).
RECURSIVE BuildRunnables_Break(_)
BuildRunnables_Break(projects) ==
    IF projects = <<>> THEN <<>>
    ELSE IF ~metadata[Head(projects)].ok THEN <<>>
    ELSE ProjectRunnables(Head(projects)) \o BuildRunnables_Break(Tail(projects))

\* Second part of discover_runnables.
BuildRunnables(projects) ==
    Flatten([i \in 1..Len(projects) |-> ProjectRunnables(projects[i])])

(***************************************************************************)
(* Launch configurations                                                   *)
(***************************************************************************)
\* The cwd of a runnable's configuration.
Cwd(runnable, root_dir) ==
    LET relative_path == DiffPaths(runnable.project_path, root_dir)
    IN  IF relative_path = <<>> \/ relative_path = <<".">>
        THEN <<"${workspaceFolder}">>
        ELSE <<"${workspaceFolder}", "/">> \o Display(relative_path)

\* runnable.name.split("::").last().unwrap_or(&runnable.name)
BinaryName(runnable) ==
    LET parts == Split(runnable.name, "::")
    IN  IF parts = <<>> THEN runnable.name ELSE Last(parts)

\* runnable.name.split("::").nth(1)
\*     .and_then(|s| s.strip_suffix(" (example)")).unwrap_or(&runnable.name)
ExampleName(runnable) ==
    LET parts == Split(runnable.name, "::")
        second == IF Len(parts) >= 2 THEN Some(parts[2]) ELSE None
        stripped == IF IsSome(second)
                    THEN StripSuffix(Unwrap(second), " (example)")
                    ELSE None
    IN  IF IsSome(stripped) THEN Unwrap(stripped) ELSE runnable.name

\* The "--features=a,b" argument, when required_features is not empty.
FeatureArgs(runnable) ==
    IF runnable.required_features # <<>>
    THEN << <<"--features=">> \o JoinWith(runnable.required_features, ",") >>
    ELSE <<>>

\* As BinaryCargoArgs, with only "main" invoked by package.
BinaryCargoArgs_MainOnly(runnable) ==
    LET binary_name == BinaryName(runnable)
    IN  (IF binary_name = <<"main">>
         THEN << <<"run">>, <<"--package=", runnable.package>> >>
         ELSE << <<"run">>, <<"--bin=">> \o binary_name,
                 <<"--package=", runnable.package>> >>)
        \o FeatureArgs(runnable)

\* cargo.args of a binary's configuration.
BinaryCargoArgs(runnable) ==
    LET binary_name == BinaryName(runnable)
    IN  (IF binary_name = <<"main">> \/ binary_name = <<runnable.package>>
         THEN << <<"run">>, <<"--package=", runnable.package>> >>
         ELSE << <<"run">>, <<"--bin=">> \o binary_name,
                 <<"--package=", runnable.package>> >>)
        \o FeatureArgs(runnable)

\* cargo.args of an example's configuration.
ExampleCargoArgs(runnable) ==
    << <<"run">>, <<"--example=">> \o ExampleName(runnable),
       <<"--package=", runnable.package>> >>
    \o FeatureArgs(runnable)

\* The Configuration built for one runnable.
MakeConfiguration(runnable, root_dir) ==
    LET cwd == Cwd(runnable, root_dir)
    IN  IF runnable.runnable_type = "Binary"
        THEN [name |-> <<"Debug binary '">> \o runnable.name \o <<"'">>,
              config_type |-> "lldb",
              request |-> "launch",
              cwd |-> cwd,
              env |-> [bevy_asset_root |-> cwd],
              cargo |-> [args |-> BinaryCargoArgs(runnable)],
              args |-> <<>>]
        ELSE [name |-> <<"Debug example '">> \o runnable.name \o <<"'">>,
              config_type |-> "lldb",
              request |-> "launch",
              cwd |-> cwd,
              env |-> [bevy_asset_root |-> cwd],
              cargo |-> [args |-> ExampleCargoArgs(runnable)],
              args |-> <<>>]

generate_launch_config(rs, root_dir) ==
    [version |-> "0.2.0",
     configurations |-> [i \in 1..Len(rs) |-> MakeConfiguration(rs[i], root_dir)]]

generate_workspace_launch_config(rs, root_dir) ==
    [version |-> "0.2.0",
     configurations |-> generate_launch_config(rs, root_dir).configurations]

(***************************************************************************)
(* The workspace document                                                  *)
(***************************************************************************)
\* serde_json::Value: null, or an object with the given member keys.
JNull == [t |-> "null", m |-> {}]
JObject(members) == [t |-> "object", m |-> members]

IsNull(v) == v.t = "null"
IsObject(v) == v.t = "object"

\* The keys of WorkspaceFile that are Option<serde_json::Value>.
ValueKeys == {"settings", "tasks", "extensions"}

\* As EmptyWorkspaceFile, with empty placeholders for the optional sections.
EmptyWorkspaceFile_Placeholders ==
    [folders |-> <<>>, name |-> None, settings |-> Some(JObject({})),
     launch |-> None, tasks |-> Some(JObject({})),
     extensions |-> Some(JObject({"recommendations"}))]

\* WorkspaceFile { folders: vec![], name: None, ... }
EmptyWorkspaceFile ==
    [folders |-> <<>>, name |-> None, settings |-> None, launch |-> None,
     tasks |-> None, extensions |-> None]

\* Serialize for Configuration (config_type is renamed to "type",
\* bevy_asset_root to "BEVY_ASSET_ROOT").
SerConfiguration(c) ==
    [name |-> c.name, type |-> c.config_type, request |-> c.request,
     cwd |-> c.cwd, env |-> [BEVY_ASSET_ROOT |-> c.env.bevy_asset_root],
     cargo |-> [args |-> c.cargo.args], args |-> c.args]

\* Deserialize for Configuration: fails when a field is missing, ignores
\* fields it does not know.
ConfigurationConforms(raw) ==
    /\ {"name", "type", "request", "cwd", "env", "cargo", "args"}
           \subseteq DOMAIN raw
    /\ "BEVY_ASSET_ROOT" \in DOMAIN raw.env
    /\ "args" \in DOMAIN raw.cargo

DeConfiguration(raw) ==
    [name |-> raw.name, config_type |-> raw.type, request |-> raw.request,
     cwd |-> raw.cwd, env |-> [bevy_asset_root |-> raw.env.BEVY_ASSET_ROOT],
     cargo |-> [args |-> raw.cargo.args], args |-> raw.args]

SerLaunch(l) ==
    [version |-> l.version,
     configurations |->
         [i \in 1..Len(l.configurations) |-> SerConfiguration(l.configurations[i])]]

LaunchConforms(raw) ==
    /\ {"version", "configurations"} \subseteq DOMAIN raw
    /\ \A i \in 1..Len(raw.configurations) :
           ConfigurationConforms(raw.configurations[i])

DeLaunch(raw) ==
    [version |-> raw.version,
     configurations |->
         [i \in 1..Len(raw.configurations) |-> DeConfiguration(raw.configurations[i])]]

\* serde_json::to_string_pretty(&workspace_file): folders always, every
\* other field only when it is Some (skip_serializing_if).
Serialize(wf) ==
    LET keys == {"folders"} \cup
                {k \in {"name", "launch"} \cup ValueKeys : IsSome(wf[k])}
    IN  [valid |-> TRUE,
         obj |-> [k \in keys |->
                    IF k = "folders" THEN wf.folders
                    ELSE IF k = "launch" THEN SerLaunch(Unwrap(wf.launch))
                    ELSE Unwrap(wf[k])]]

\* Deserialize for an Option<serde_json::Value> field: a missing key and a
\* null both give None.
DeValue(obj, k) ==
    IF k \in DOMAIN obj /\ ~IsNull(obj[k]) THEN Some(obj[k]) ELSE None

\* serde_json::from_str::<WorkspaceFile>(&content): an error for text that
\* is not JSON, for a document without folders, and for a launch section of
\* another shape; keys that WorkspaceFile does not have are ignored.
ParseWorkspaceFile(content) ==
    LET obj == content.obj
    IN  IF /\ content.valid
           /\ "folders" \in DOMAIN obj
           /\ ("launch" \in DOMAIN obj => LaunchConforms(obj.launch))
        THEN [ok |-> TRUE,
              value |->
                [folders |-> obj.folders,
                 name |-> IF "name" \in DOMAIN obj THEN Some(obj.name) ELSE None,
                 settings |-> DeValue(obj, "settings"),
                 launch |-> IF "launch" \in DOMAIN obj
                            THEN Some(DeLaunch(obj.launch)) ELSE None,
                 tasks |-> DeValue(obj, "tasks"),
                 extensions |-> DeValue(obj, "extensions")]]
        ELSE [ok |-> FALSE, value |-> EmptyWorkspaceFile]

(***************************************************************************)
(* write_workspace_launch_config                                           *)
(***************************************************************************)
generate_workspace_filename(root_dir) ==
    LET root_name == IF IsSome(FileName(root_dir))
                     THEN Unwrap(FileName(root_dir)) ELSE "rust-projects"
    IN  <<root_name, ".code-workspace">>

generate_workspace_name(root_dir, project_paths) ==
    IF Len(project_paths) = 1 /\ IsSome(FileName(project_paths[1]))
    THEN <<Unwrap(FileName(project_paths[1])), " (Rust)">>
    ELSE LET root_name == IF IsSome(FileName(root_dir))
                          THEN Unwrap(FileName(root_dir)) ELSE "Rust Projects"
         IN  IF Len(project_paths) > 1
             THEN <<root_name, " (", ToString(Len(project_paths)),
                    " Rust Projects)">>
             ELSE <<root_name, " (Rust)">>

\* The loop that looks for a free numbered backup name.
RECURSIVE FreeNumberedBackup(_, _)
FreeNumberedBackup(base_backup_name, counter) ==
    LET backup_path == base_backup_name \o <<".", ToString(counter)>>
    IN  IF backup_path \notin DOMAIN backups THEN backup_path
        ELSE FreeNumberedBackup(base_backup_name, counter + 1)

\* As BackupPath, without the search for a free name.
BackupPath_Overwrite(workspace_filename) ==
    workspace_filename \o <<".backup">>

\* backup_path
BackupPath(workspace_filename) ==
    LET base_backup_name == workspace_filename \o <<".backup">>
    IN  IF base_backup_name \in DOMAIN backups
        THEN FreeNumberedBackup(base_backup_name, 1)
        ELSE base_backup_name

\* fs::copy(&workspace_path, &backup_path)
CopyToBackup(backup_path, content) ==
    [n \in DOMAIN backups \cup {backup_path} |->
        IF n = backup_path THEN content ELSE backups[n]]

\* The document the merge starts from.
LoadWorkspaceFile ==
    IF IsSome(wsfile)
    THEN LET parsed == ParseWorkspaceFile(Unwrap(wsfile))
         IN  IF parsed.ok THEN parsed.value ELSE EmptyWorkspaceFile
    ELSE EmptyWorkspaceFile

\* Vec::dedup: removes consecutive repeated elements.
RECURSIVE Dedup(_)
Dedup(s) ==
    IF Len(s) <= 1 THEN s
    ELSE IF s[1] = s[2] THEN Dedup(Tail(s))
    ELSE <<s[1]>> \o Dedup(Tail(s))

\* project_paths: the project paths of the runnables, sorted, deduplicated.
ProjectPaths(rs) ==
    Dedup(SortSeq([i \in 1..Len(rs) |-> rs[i].project_path], PathLess))

\* The folder entry of one project path.
FolderFor(project_path, root_dir) ==
    LET path == DiffPaths(project_path, root_dir)
    IN  IF path # <<>> /\ path # <<".">>
        THEN [path |-> <<"./">> \o Display(path)]
        ELSE [path |-> <<".">>]

\* folders
Folders(project_paths, root_dir) ==
    LET folders == [i \in 1..Len(project_paths) |->
                       FolderFor(project_paths[i], root_dir)]
    IN  IF folders = <<>> THEN << [path |-> <<".">>] >> ELSE folders

\* "Clean up null/empty fields"
CleanUp(wf) ==
    [wf EXCEPT
        !.settings = IF IsSome(@) /\ IsNull(Unwrap(@)) THEN None ELSE @,
        !.tasks = IF IsSome(@) /\ IsNull(Unwrap(@)) THEN None ELSE @,
        !.extensions =
            IF IsSome(@) /\ (IsNull(Unwrap(@))
                             \/ (IsObject(Unwrap(@)) /\ Unwrap(@).m = {}))
            THEN None ELSE @]

\* As SetLaunch, with the new configurations added to those of the loaded
\* document.
SetLaunch_Append(wf, lc) ==
    IF IsSome(wf.launch)
    THEN [wf EXCEPT !.launch =
            Some([version |-> lc.version,
                  configurations |->
                      Unwrap(wf.launch).configurations \o lc.configurations])]
    ELSE [wf EXCEPT !.launch = Some(lc)]

\* workspace_file.launch = Some(launch_config.clone())
SetLaunch(wf, lc) == [wf EXCEPT !.launch = Some(lc)]

\* The document that write_workspace_launch_config serializes.
MergedWorkspaceFile(loaded, lc, rs, root_dir) ==
    LET project_paths == ProjectPaths(rs)
        named == [loaded EXCEPT
                    !.name = Some(generate_workspace_name(root_dir, project_paths))]
        withFolders == [named EXCEPT !.folders = Folders(project_paths, root_dir)]
    IN  SetLaunch(CleanUp(withFolders), lc)

(***************************************************************************)
(* Answers of `cargo metadata`                                             *)
(***************************************************************************)
\* The feature names targets require, in declaration order.
FeatureList == <<"ui", "net", "gfx">>

Target(name, kind, required_features) ==
    [name |-> name, kind |-> {kind}, required_features |-> required_features]

Package(name, dir, targets) ==
    [name |-> name, manifest_path |-> PathJoin(dir, "Cargo.toml"),
     targets |-> targets]

\* A dependency that lives outside every project directory.
DepPackage ==
    Package("dep", <<"home", ".cargo", "registry", "dep">>,
            << Target("dep", "lib", <<>>), Target("depbin", "bin", <<>>) >>)

\* The query fails.
MetaFail == [ok |-> FALSE, workspace_members |-> <<>>, packages |-> <<>>]

\* No membership list; the package of the directory has the directory's
\* name and a binary "main".
MetaSingle(d) ==
    [ok |-> TRUE, workspace_members |-> <<>>,
     packages |-> << DepPackage,
                     Package(Last(d), d, << Target("main", "bin", <<>>) >>) >>]

\* No membership list and no package for the manifest.
MetaNoMatch(d) ==
    [ok |-> TRUE, workspace_members |-> <<>>, packages |-> << DepPackage >>]

\* Package "demo": a library, the binaries "demo" and "server", the example
\* "basic"; server and basic require features.
MetaDemo(d) ==
    [ok |-> TRUE, workspace_members |-> <<"demo">>,
     packages |->
        << Package("demo", d,
              << Target("demo", "lib", <<>>),
                 Target("demo", "bin", <<>>),
                 Target("server", "bin", SubSeq(FeatureList, 1, 1)),
                 Target("basic", "example",
                        SubSeq(FeatureList, 1, MaxFeatures)) >>),
           DepPackage >>]

\* A workspace: the root package with a binary "main", a member "util" in
\* a subdirectory, and a dependency outside the project.
MetaWorkspace(d) ==
    [ok |-> TRUE, workspace_members |-> <<Last(d), "util">>,
     packages |->
        << Package(Last(d), d, << Target("main", "bin", <<>>) >>),
           DepPackage,
           Package("util", PathJoin(d, "util"),
              << Target("main", "example", <<>>),
                 Target("tool", "bin", SubSeq(FeatureList, 1, MaxFeatures)) >>) >>]

\* A membership list, but every package lies outside the project.
MetaOutside(d) ==
    [ok |-> TRUE, workspace_members |-> <<"dep">>, packages |-> << DepPackage >>]

\* A package with a library target only.
MetaLibOnly(d) ==
    [ok |-> TRUE, workspace_members |-> <<Last(d)>>,
     packages |-> << Package(Last(d), d, << Target(Last(d), "lib", <<>>) >>) >>]

MetaOptions(d) ==
    { MetaFail, MetaSingle(d), MetaNoMatch(d), MetaDemo(d), MetaWorkspace(d),
      MetaOutside(d), MetaLibOnly(d) }

(***************************************************************************)
(* Workspace files and backups that can be on disk before the first run    *)
(***************************************************************************)
\* Text that is not JSON.
Garbage(i) == [valid |-> FALSE, obj |-> [garbage |-> i]]

Json(obj) == [valid |-> TRUE, obj |-> obj]

\* A configuration this tool wrote in an earlier life for a target that is
\* gone, with a field the user added.
OldConfiguration ==
    [name |-> <<"Debug binary '", "old", "::", "gone", "'">>,
     type |-> "lldb", request |-> "launch",
     cwd |-> <<"${workspaceFolder}">>,
     env |-> [BEVY_ASSET_ROOT |-> <<"${workspaceFolder}">>],
     cargo |-> [args |-> << <<"run">>, <<"--package=", "old">> >>],
     args |-> << <<"--verbose">> >>,
     preLaunchTask |-> <<"build">>]

\* A configuration of another debugger, written by hand.
NodeConfiguration ==
    [name |-> <<"Attach to node">>, type |-> "node", request |-> "attach",
     port |-> 9229]

HandSettings == JObject({"editor.tabSize", "files.exclude"})

InitialDocuments ==
    { \* settings and a launch section of the tool's shape
      Json([folders |-> << [path |-> <<"./", "old">>] >>,
            settings |-> HandSettings,
            launch |-> [version |-> "0.2.0",
                        configurations |-> << OldConfiguration >>,
                        compounds |-> <<>>],
            remoteAuthority |-> <<"wsl">>]),
      \* settings and a launch section written for another debugger
      Json([folders |-> << [path |-> <<".">>] >>,
            settings |-> HandSettings,
            launch |-> [version |-> "0.2.0",
                        configurations |-> << NodeConfiguration >>]]),
      \* settings but no folders
      Json([settings |-> HandSettings]),
      \* empty and null sections
      Json([folders |-> <<>>, settings |-> JNull, tasks |-> JObject({}),
            extensions |-> JObject({})]),
      Json([folders |-> <<>>, settings |-> JObject({}), tasks |-> JNull,
            extensions |-> JNull]),
      \* non-empty sections, no launch
      Json([folders |-> << [path |-> <<"./", "beta">>],
                           [path |-> <<"./", "alpha">>] >>,
            name |-> <<"mine">>,
            settings |-> HandSettings,
            tasks |-> JObject({"version", "tasks"}),
            extensions |-> JObject({"recommendations"})]),
      Garbage(1) }

WorkspaceFilename == generate_workspace_filename(RootDir)

BaseBackupName == WorkspaceFilename \o <<".backup">>

NumberedBackupName(n) == BaseBackupName \o <<".", ToString(n)>>

NoBackups == [n \in {} |-> Garbage(0)]

BackupsOf(names) == [n \in names |-> Garbage(2)]

InitialBackups ==
    { NoBackups,
      BackupsOf({BaseBackupName}),
      BackupsOf({BaseBackupName, NumberedBackupName(1)}),
      BackupsOf({BaseBackupName, NumberedBackupName(2)}),
      BackupsOf({NumberedBackupName(1)}) }

(***************************************************************************)
(* Initial states                                                          *)
(***************************************************************************)
Alpha == RootDir \o <<"alpha">>
Beta == RootDir \o <<"beta">>

EmptyLaunch == [version |-> "0.2.0", configurations |-> <<>>]

InitRun ==
    /\ pc = "start"
    /\ found_projects = <<>>
    /\ runnables = <<>>
    /\ launch_config = EmptyLaunch
    /\ outcome = "none"
    /\ runs = 0
    /\ history = <<>>

\* Every tree; each project answers the metadata query the same way.
InitTrees ==
    /\ manifests \in SUBSET AllDirs
    /\ unreadable \in SUBSET {Alpha}
    /\ listing \in {ListingFwd, ListingRev}
    /\ metadata \in { [d \in AllDirs |-> MetaSingle(d)],
                      [d \in AllDirs |-> MetaWorkspace(d)] }
    /\ wsfile \in {None, Some(Garbage(1))}
    /\ backups = NoBackups

\* Every answer of the metadata query, for one or two projects.
InitMetadata ==
    /\ manifests \in { {Alpha, Beta}, {RootDir, Alpha} }
    /\ unreadable = {}
    /\ listing \in {ListingFwd, ListingRev}
    /\ \E ma \in MetaOptions(Alpha), mb \in MetaOptions(Beta),
          mr \in MetaOptions(RootDir) :
          /\ RootDir \notin manifests => mr = MetaFail
          /\ RootDir \in manifests => (ma = MetaFail /\ mb = MetaFail)
          /\ metadata = [d \in AllDirs |->
                            IF d = Alpha THEN ma
                            ELSE IF d = Beta THEN mb
                            ELSE IF d = RootDir THEN mr
                            ELSE MetaFail]
    /\ wsfile = None
    /\ backups = NoBackups

\* Every workspace file and set of backups, for a few trees.
InitFiles ==
    /\ manifests \in { {}, {RootDir}, {Alpha, Beta} }
    /\ unreadable = {}
    /\ listing = ListingFwd
    /\ metadata \in { [d \in AllDirs |-> MetaDemo(d)],
                      [d \in AllDirs |->
                          IF d = Beta THEN MetaLibOnly(d) ELSE MetaWorkspace(d)] }
    /\ wsfile \in {None} \cup {Some(doc) : doc \in InitialDocuments}
    /\ backups \in InitialBackups

Init == InitRun /\ (InitTrees \/ InitMetadata \/ InitFiles)

(***************************************************************************)
(* A run of main                                                           *)
(***************************************************************************)
\* The record kept of a finished run.
RunRecord(result, ws_after, backups_after, lc) ==
    [outcome |-> result,
     ws_before |-> wsfile, ws_after |-> ws_after,
     backups_before |-> backups, backups_after |-> backups_after,
     found_projects |-> found_projects, runnables |-> runnables,
     launch_config |-> lc]

\* discover_runnables returns Err: no Cargo.toml was found.
DiscoverRunnablesErr ==
    /\ pc = "start"
    /\ ~FindProjects(RootDir).ok
    /\ pc' = "done"
    /\ outcome' = "NotFound"
    /\ runs' = runs + 1
    /\ history' = Append(history, RunRecord("NotFound", wsfile, backups, launch_config))
    /\ UNCHANGED << treeVars, wsfile, backups, found_projects, runnables,
                    launch_config >>

\* discover_runnables returns Ok(runnables).
DiscoverRunnablesOk ==
    /\ pc = "start"
    /\ FindProjects(RootDir).ok
    /\ found_projects' = FindProjects(RootDir).projects
    /\ runnables' = BuildRunnables(FindProjects(RootDir).projects)
    /\ pc' = "discovered"
    /\ UNCHANGED << treeVars, wsfile, backups, launch_config, outcome, runs,
                    history >>

\* main returns Ok(()) after "No runnables found".
NoRunnables ==
    /\ pc = "discovered"
    /\ runnables = <<>>
    /\ pc' = "done"
    /\ outcome' = "NoRunnables"
    /\ runs' = runs + 1
    /\ history' = Append(history, RunRecord("NoRunnables", wsfile, backups, launch_config))
    /\ UNCHANGED << treeVars, wsfile, backups, found_projects, runnables,
                    launch_config >>

\* main calls generate_workspace_launch_config.
GenerateWorkspaceLaunchConfig ==
    /\ pc = "discovered"
    /\ runnables # <<>>
    /\ launch_config' = generate_workspace_launch_config(runnables, RootDir)
    /\ pc' = "generated"
    /\ UNCHANGED << treeVars, wsfile, backups, found_projects, runnables,
                    outcome, runs, history >>

\* main calls write_workspace_launch_config and returns Ok(()).
WriteWorkspaceLaunchConfig ==
    /\ pc = "generated"
    /\ LET workspace_filename == generate_workspace_filename(RootDir)
           backups_after ==
               IF IsSome(wsfile)
               THEN CopyToBackup(BackupPath(workspace_filename), Unwrap(wsfile))
               ELSE backups
           workspace_file ==
               MergedWorkspaceFile(LoadWorkspaceFile, launch_config, runnables,
                                   RootDir)
           ws_after == Some(Serialize(workspace_file))
       IN  /\ backups' = backups_after
           /\ wsfile' = ws_after
           /\ history' = Append(history,
                                RunRecord("Ok", ws_after, backups_after, launch_config))
    /\ pc' = "done"
    /\ outcome' = "Ok"
    /\ runs' = runs + 1
    /\ UNCHANGED << treeVars, found_projects, runnables, launch_config >>

\* The tool is started again on the same tree.
NextRun ==
    /\ pc = "done"
    /\ runs < MaxRuns
    /\ pc' = "start"
    /\ found_projects' = <<>>
    /\ runnables' = <<>>
    /\ launch_config' = EmptyLaunch
    /\ outcome' = "none"
    /\ UNCHANGED << treeVars, wsfile, backups, runs, history >>

Next ==
    \/ DiscoverRunnablesErr
    \/ DiscoverRunnablesOk
    \/ NoRunnables
    \/ GenerateWorkspaceLaunchConfig
    \/ WriteWorkspaceLaunchConfig
    \/ NextRun

Spec == Init /\ [][Next]_vars

(***************************************************************************)
(* Properties                                                              *)
(***************************************************************************)
\* The JSON object of a workspace file that is on disk.
ObjOf(ws) == Unwrap(ws).obj

IsJson(ws) == IsSome(ws) /\ Unwrap(ws).valid

\* The runs that wrote the workspace file.
WritingRuns == {i \in DOMAIN history : history[i].outcome = "Ok"}

\* C1: for every existing workspace document with a hand-authored settings
\* block and an unrelated launch block, after a run that found a runnable the
\* written settings block equals the one before the run and the written
\* launch block is exactly the freshly generated configurations.
C1_SettingsKeptLaunchReplaced ==
    \A i \in WritingRuns :
        LET h == history[i]
        IN  (/\ IsJson(h.ws_before)
             /\ {"settings", "launch"} \subseteq DOMAIN ObjOf(h.ws_before)
             /\ IsObject(ObjOf(h.ws_before).settings)
             /\ ObjOf(h.ws_before).settings.m # {})
            => /\ "settings" \in DOMAIN ObjOf(h.ws_after)
               /\ ObjOf(h.ws_after).settings = ObjOf(h.ws_before).settings
               /\ "launch" \in DOMAIN ObjOf(h.ws_after)
               /\ ObjOf(h.ws_after).launch = SerLaunch(h.launch_config)

\* The folder entry the specification gives a project root.
ExpectedFolder(project_path) ==
    IF project_path = RootDir THEN [path |-> <<".">>]
    ELSE [path |-> <<"./">> \o
                   Display(SubSeq(project_path, Len(RootDir) + 1, Len(project_path)))]

\* C2: after every run that writes the workspace document, folders holds
\* exactly one entry for each project root that discovery returned, sorted
\* and without duplicates, whether or not the project produced a runnable.
C2_FoldersAreDiscoveredProjects ==
    \A i \in WritingRuns :
        LET h == history[i]
            folders == ObjOf(h.ws_after).folders
        IN  /\ Range(folders) = {ExpectedFolder(p) : p \in Range(h.found_projects)}
            /\ Len(folders) = Cardinality(Range(h.found_projects))

\* C3: within one run no two runnables have the same display name, and no
\* two generated launch entries have the same name.
C3_DisplayNamesUnique ==
    /\ \A i, j \in DOMAIN runnables :
           i # j => runnables[i].name # runnables[j].name
    /\ \A i, j \in DOMAIN launch_config.configurations :
           i # j => launch_config.configurations[i].name
                        # launch_config.configurations[j].name

\* C4: two successive runs on an unchanged tree end alike: the second run
\* ends as the first did; when they write, folders and launch (and the whole
\* workspace document) are the same after both, and the files on disk differ
\* only by the one backup the second run added.
C4_Idempotent ==
    /\ \A i \in 1..(Len(history) - 1) :
        LET a == history[i]
            b == history[i + 1]
        IN  /\ b.outcome = a.outcome
            /\ b.ws_before = a.ws_after
            /\ b.backups_before = a.backups_after
            /\ a.outcome = "Ok" =>
                 /\ ObjOf(b.ws_after).folders = ObjOf(a.ws_after).folders
                 /\ ObjOf(b.ws_after).launch = ObjOf(a.ws_after).launch
                 /\ b.ws_after = a.ws_after
                 /\ \E n \in DOMAIN b.backups_after :
                      /\ n \notin DOMAIN a.backups_after
                      /\ DOMAIN b.backups_after = DOMAIN a.backups_after \cup {n}
                 /\ \A m \in DOMAIN a.backups_after :
                      b.backups_after[m] = a.backups_after[m]
            /\ a.outcome # "Ok" =>
                 /\ b.ws_after = a.ws_after
                 /\ b.backups_after = a.backups_after
    /\ (pc = "done" /\ history # <<>>) =>
           /\ Last(history).ws_after = wsfile
           /\ Last(history).backups_after = backups

\* A second run wrote again over a document that the first run had built from
\* a hand-written one.
C4_Witness ==
    /\ Len(history) = 2
    /\ history[2].outcome = "Ok"
    /\ IsJson(history[1].ws_before)
    /\ "launch" \in DOMAIN ObjOf(history[1].ws_before)
    /\ Cardinality(Range(history[2].found_projects)) = 2

\* The name the specification gives the backup of a run.
ExpectedBackupName(before) ==
    IF BaseBackupName \notin DOMAIN before THEN BaseBackupName
    ELSE LET free == {n \in 1..(Cardinality(DOMAIN before) + 1) :
                         NumberedBackupName(n) \notin DOMAIN before}
         IN  NumberedBackupName(CHOOSE n \in free : \A m \in free : n <= m)

\* C5: every run that comes to write_workspace_launch_config and finds the
\* workspace file present adds exactly one backup file, named with the backup
\* suffix or, when that name is taken, with the smallest free number; the
\* backup holds the workspace file as it was before the run; no backup that
\* existed before is changed; and a run that ends before the merge leaves the
\* backups alone.
C5_OneNewBackupPerRun ==
    /\ \A i \in DOMAIN history \ WritingRuns :
        history[i].backups_after = history[i].backups_before
    /\ \A i \in WritingRuns :
        LET h == history[i]
            new == DOMAIN h.backups_after \ DOMAIN h.backups_before
        IN  /\ \A m \in DOMAIN h.backups_before :
                 /\ m \in DOMAIN h.backups_after
                 /\ h.backups_after[m] = h.backups_before[m]
            /\ IsSome(h.ws_before) =>
                 /\ new = {ExpectedBackupName(h.backups_before)}
                 /\ \A n \in new : h.backups_after[n] = Unwrap(h.ws_before)
            /\ ~IsSome(h.ws_before) => new = {}
    /\ \A i \in DOMAIN history :
        /\ (i = Len(history) /\ pc \in {"done", "start"}) =>
               history[i].backups_after = backups
        /\ i < Len(history) =>
               history[i].backups_after = history[i + 1].backups_before

\* A run found the backup name and the number 1 taken and wrote backup 2.
C5_Witness ==
    \E i \in WritingRuns :
        /\ IsSome(history[i].ws_before)
        /\ NumberedBackupName(1) \in DOMAIN history[i].backups_before
        /\ NumberedBackupName(2) \notin DOMAIN history[i].backups_before
        /\ NumberedBackupName(2) \in DOMAIN backups
        /\ backups[NumberedBackupName(2)] = Unwrap(history[i].ws_before)

\* dir lies strictly below anc.
ProperDescendant(dir, anc) ==
    Len(dir) > Len(anc) /\ SubSeq(dir, 1, Len(anc)) = anc

Discovered == pc \in {"discovered", "generated"}

\* C6: when the scan root holds a manifest, discovery returns exactly the
\* scan root; otherwise no discovered project root lies below a directory
\* that holds a manifest, and no two discovered roots are ancestor and
\* descendant.
C6_NoNestedProjects ==
    Discovered =>
        /\ RootDir \in manifests => found_projects = <<RootDir>>
        /\ RootDir \notin manifests =>
             \A i \in DOMAIN found_projects :
                 /\ \A d \in manifests :
                        ~ProperDescendant(found_projects[i], d)
                 /\ \A j \in DOMAIN found_projects :
                        ~ProperDescendant(found_projects[i], found_projects[j])

\* Discovery stopped at a project that has another manifest below it.
C6_Witness ==
    /\ Discovered
    /\ RootDir \notin manifests
    /\ {Alpha, Alpha \o <<"sub">>, Beta} \subseteq manifests
    /\ Range(found_projects) = {Alpha, Beta}

RunnableTargetsOf(project) ==
    LET md == metadata[project]
        Own(k) == md.packages[k].manifest_path = project \o <<"Cargo.toml">>
        Under(k) == \E n \in 0..(Len(md.packages[k].manifest_path) - 1) :
                        SubSeq(md.packages[k].manifest_path, 1, n) = project
        all == 1..Len(md.packages)
        chosen == IF ~md.ok THEN {}
                  ELSE IF md.workspace_members = <<>>
                  THEN {k \in all : Own(k) /\ \A j \in 1..(k - 1) : ~Own(j)}
                  ELSE {k \in all : Under(k)}
    IN  Flatten([k \in all |->
            IF k \notin chosen THEN <<>>
            ELSE Flatten([t \in 1..Len(md.packages[k].targets) |->
                    LET tg == md.packages[k].targets[t]
                    IN  IF tg.kind \cap {"bin", "example"} = {} THEN <<>>
                        ELSE << [project |-> project,
                                 package |-> md.packages[k].name,
                                 target |-> tg.name,
                                 kind |-> IF "bin" \in tg.kind THEN "bin" ELSE "example",
                                 features |-> tg.required_features] >>])])

\* The targets of all projects, in discovery order.
ExpectedTargets(projects) ==
    Flatten([i \in 1..Len(projects) |-> RunnableTargetsOf(projects[i])])

\* C8: whichever projects fail the metadata query or offer no matching
\* package, the run does not abort: the runnable list, and the launch section
\* generated from it, hold exactly the binary and example targets of the other
\* projects, in discovery order.
C8_FailingProjectsSkipped ==
    LET expected == ExpectedTargets(found_projects)
    IN  /\ (Discovered \/ (pc = "done" /\ outcome # "NotFound")) =>
             /\ Len(runnables) = Len(expected)
             /\ \A i \in DOMAIN expected :
                  /\ runnables[i].project_path = expected[i].project
                  /\ runnables[i].package = expected[i].package
                  /\ runnables[i].required_features = expected[i].features
                  /\ expected[i].kind = "bin" =>
                       /\ runnables[i].runnable_type = "Binary"
                       /\ runnables[i].name =
                            <<expected[i].package, "::", expected[i].target>>
                  /\ expected[i].kind = "example" =>
                       /\ runnables[i].runnable_type = "Example"
                       /\ runnables[i].name =
                            <<expected[i].package, "::", expected[i].target,
                              " (example)">>
        /\ (pc = "generated" \/ (pc = "done" /\ outcome = "Ok")) =>
             /\ Len(launch_config.configurations) = Len(expected)
             /\ \A i \in DOMAIN expected :
                  launch_config.configurations[i].name =
                      <<(IF expected[i].kind = "bin" THEN "Debug binary '"
                         ELSE "Debug example '")>>
                      \o runnables[i].name \o <<"'">>
        /\ (pc = "done" /\ found_projects # <<>>) =>
               outcome = (IF expected = <<>> THEN "NoRunnables" ELSE "Ok")

\* The first discovered project failed its query and a later one gave
\* runnables that were written.
C8_Witness ==
    /\ pc = "done"
    /\ outcome = "Ok"
    /\ Len(found_projects) = 2
    /\ ~metadata[found_projects[1]].ok
    /\ runnables # <<>>

\* C9: when no directory of the tree holds a manifest, the run fails with
\* NotFound and no step of it writes: the workspace file and the backups stay
\* as they are.
C9_NotFoundWritesNothing ==
    [][manifests = {} =>
          /\ wsfile' = wsfile
          /\ backups' = backups
          /\ pc' \in {"start", "done"}
          /\ pc' = "done" => outcome' = "NotFound"]_vars

\* A run on a tree without manifests ended with NotFound beside an existing
\* workspace file.
C9_Witness ==
    /\ manifests = {}
    /\ pc = "done"
    /\ outcome = "NotFound"
    /\ IsSome(wsfile)
    /\ backups # NoBackups

\* "a,b,c" as tokens.
CommaJoined(features) ==
    [i \in 1..(2 * Len(features) - 1) |->
        IF i % 2 = 1 THEN features[(i + 1) \div 2] ELSE ","]

\* The build-invocation arguments the specification gives a target.
ReferenceArgs(e) ==
    (IF e.kind = "bin"
     THEN IF e.target = "main" \/ e.target = e.package
          THEN << <<"run">>, <<"--package=", e.package>> >>
          ELSE << <<"run">>, <<"--bin=", e.target>>, <<"--package=", e.package>> >>
     ELSE << <<"run">>, <<"--example=", e.target>>, <<"--package=", e.package>> >>)
    \o (IF e.features = <<>> THEN <<>>
        ELSE << <<"--features=">> \o CommaJoined(e.features) >>)

\* C10: the build-invocation arguments of every generated configuration are
\* the reference arguments of its target, in the generated launch section and
\* in the written document.
C10_CargoArgs ==
    LET expected == ExpectedTargets(found_projects)
    IN  /\ (pc = "generated" \/ (pc = "done" /\ outcome = "Ok")) =>
             /\ Len(launch_config.configurations) = Len(expected)
             /\ \A i \in DOMAIN expected :
                    launch_config.configurations[i].cargo.args
                        = ReferenceArgs(expected[i])
        /\ (pc = "done" /\ outcome = "Ok") =>
             /\ Len(ObjOf(wsfile).launch.configurations) = Len(expected)
             /\ \A i \in DOMAIN expected :
                    ObjOf(wsfile).launch.configurations[i].cargo.args
                        = ReferenceArgs(expected[i])

\* The generated section holds a binary named like its package, a binary with
\* another name, and an example that requires more than one feature.
C10_Witness ==
    /\ pc = "generated"
    /\ \E i, j, k \in DOMAIN launch_config.configurations :
        /\ launch_config.configurations[i].cargo.args
               = << <<"run">>, <<"--package=", "demo">> >>
        /\ launch_config.configurations[j].cargo.args
               = << <<"run">>, <<"--bin=", "server">>, <<"--package=", "demo">>,
                    <<"--features=", "ui">> >>
        /\ Len(launch_config.configurations[k].cargo.args) = 4
        /\ Len(launch_config.configurations[k].cargo.args[4]) >= 4
        /\ launch_config.configurations[k].cargo.args[2]
               = <<"--example=", "basic">>

\* A section value that is null or an object without members.
EmptyOrNull(v) == IsNull(v) \/ (IsObject(v) /\ v.m = {})

\* C11: after every run that writes the workspace document, none of
\* settings, tasks and extensions is present with an empty or null value: a
\* section that the loaded document has empty or null is absent from the
\* written document, and a section that is present and not empty is carried
\* through unchanged.
C11_EmptySectionsDropped ==
    \A i \in WritingRuns :
        LET h == history[i]
            after == ObjOf(h.ws_after)
        IN  /\ \A k \in ValueKeys \cap DOMAIN after : ~EmptyOrNull(after[k])
            /\ (IsSome(h.ws_before) /\ ParseWorkspaceFile(Unwrap(h.ws_before)).ok) =>
                 \A k \in ValueKeys \cap DOMAIN ObjOf(h.ws_before) :
                     LET v == ObjOf(h.ws_before)[k]
                     IN  /\ EmptyOrNull(v) => k \notin DOMAIN after
                         /\ ~EmptyOrNull(v) => (k \in DOMAIN after /\ after[k] = v)

====
